---- MODULE Spec2Model ----
(***************************************************************************)
(* Shared-shape synchronisation, advisory locking and per-client undo/redo *)
(* history of the collaborative canvas.                                    *)
(*                                                                         *)
(* Modelled components (latest revision of each source file):              *)
(*   - the remote Shape Store (services/canvas, consumed interface)        *)
(*   - the Sync Adapter          hooks/useCanvasSync.ts                    *)
(*   - the Selection controller  contexts/CanvasContext.tsx                *)
(*   - the History Engine        hooks/useHistory.ts                       *)
(*   - the history wiring        ProjectCanvasProvider                     *)
(***************************************************************************)
EXTENDS Integers, Sequences, FiniteSets, TLC

\* ---------------------------------------------------------------- bounds
Clients == {"A", "B"}
IdOrder == <<"s1", "s2", "s3">>
ShapeIds == {IdOrder[i] : i \in 1..Len(IdOrder)}
InitialIds == {"s1"}
MaxBatch == 2
MaxOps == 2
MaxSoloOps == 3
MaxCapOps == 2
MaxLiveOps == 1
MaxPairOps == 1
MaxGoneOps == 2
MaxOutbox == 2
MaxFailures == 1
MaxTicks == 1

\* ------------------------------------------------------ program constants
MAX_HISTORY == 50
LockStaleMs == 10000
SafetyUnlockMs == 5000
TickMs == 5000
StartNow == 1

\* ------------------------------------------------------------ data model
NoUser == "null"
NoId == "null"
NullTime == 0
XVals == {0, 1}
MaxNow == StartNow + MaxTicks * TickMs

Uid(c) == c

\* a signed-in user whose client is gone (crashed or lost its connection)
GoneUser == "Z"

\* shape types and fill colours: DEFAULT_SHAPE_COLOR, '#000000', a caller's colour
ShapeTypes == {"rectangle", "text"}
DefaultFill == "default"
TextFill == "black"
NoOverride == "none"
\* the addShape calls of a run: (type, fill override)
AddCalls == {<<"rectangle", NoOverride>>, <<"rectangle", "red">>, <<"text", "red">>}
NoRequest == [type |-> "none", fill |-> NoOverride]

Absent ==
  [present |-> FALSE, type |-> "rectangle", x |-> 0, fill |-> DefaultFill,
   isLocked |-> FALSE, lockedBy |-> NoUser, lockedAt |-> NullTime]

NewShape(v) ==
  [present |-> TRUE, type |-> "rectangle", x |-> v, fill |-> DefaultFill,
   isLocked |-> FALSE, lockedBy |-> NoUser, lockedAt |-> NullTime]

\* addShape(type, overrides): defaults, then the overrides, then the
\* per-type properties assigned by the switch
BuildShape(type, ov) ==
  LET spread == [NewShape(0) EXCEPT !.type = type,
                                    !.fill = IF ov = NoOverride THEN DefaultFill ELSE ov]
  IN IF type = "text" THEN [spread EXCEPT !.fill = TextFill] ELSE spread

EmptyColl == [s \in ShapeIds |-> Absent]

InitialColl == [s \in ShapeIds |-> IF s \in InitialIds THEN NewShape(0) ELSE Absent]

HistoryState(sh, sel) == [shapes |-> sh, selectedIds |-> sel]

\* the id lists generateId can hand to one handler (ids in creation order)
IdLists ==
  {<<a>> : a \in ShapeIds} \cup
  {<<IdOrder[p[1]], IdOrder[p[2]]>> :
     p \in {q \in (1..Len(IdOrder)) \X (1..Len(IdOrder)) : q[1] < q[2]}}

SeqToSet(q) == {q[i] : i \in 1..Len(q)}

Includes(q, e) == e \in SeqToSet(q)

Without(q, e) == SelectSeq(q, LAMBDA z : z # e)

Min(a, b) == IF a < b THEN a ELSE b

RemoveAt(q, i) == SubSeq(q, 1, i - 1) \o SubSeq(q, i + 1, Len(q))

VARIABLES
  remote,            \* the shared collection held by the Shape Store
  now,               \* wall clock (Date.now())
  sub,               \* per client: subscription lifecycle
  mounted,           \* per client: provider still mounted
  shapes,            \* per client: local shape list (useCanvasSync state)
  loading,           \* per client: loading flag
  error,             \* per client: error state set
  selectedIds,       \* per client: local selection (ordered)
  lockTimeoutsRef,   \* per client: shape id -> tracked timer handle (0 = none)
  timers,            \* per client: pending safety timers {[h, sid, due]}
  nextHandle,        \* per client: next window.setTimeout handle
  outbox,            \* per client: remote calls in flight
  lockResolved,      \* per client, shape: result of the last lockShape call
  lockView,          \* per client, shape: lock state the caller saw when it called
  history,           \* per client: history stack
  currentIndex,      \* per client: cursor (0-based, -1 before initialisation)
  isRestoringRef,    \* per client: restoration guard flag
  hasInitializedRef, \* per client: history initialised
  restoreTimers,     \* per client: pending 100 ms guard-reset timers
  ops,               \* user events handled so far
  limit,             \* number of user events the run may contain
  failures,          \* remote calls rejected so far
  usedIds,           \* ids already handed out by generateId
  requested          \* per id: the type and overrides addShape was called with

vars == <<remote, now, sub, mounted, shapes, loading, error, selectedIds,
          lockTimeoutsRef, timers, nextHandle, outbox, lockResolved, lockView, history,
          currentIndex, isRestoringRef, hasInitializedRef, restoreTimers, ops,
          failures, usedIds, requested, limit>>

syncVars == <<sub, mounted, shapes, loading, error>>
lockVars == <<lockTimeoutsRef, timers, nextHandle, lockResolved, lockView>>
histVars == <<history, currentIndex, isRestoringRef, hasInitializedRef, restoreTimers>>

\* ------------------------------------------------- remote Shape Store ops
\* create(scopeKey, shape)
RemoteCreate(coll, sid, shape) ==
  IF coll[sid].present THEN coll ELSE [coll EXCEPT ![sid] = shape]

\* update(scopeKey, id, partialFields): merge, no-op when the id is gone
RemoteUpdate(coll, sid, v) ==
  IF coll[sid].present THEN [coll EXCEPT ![sid].x = v] ELSE coll

\* batch update: merge every listed shape into the stored shape of that id
RemoteUpdateShapes(coll, list) ==
  [s \in ShapeIds |-> IF coll[s].present /\ list[s].present THEN list[s] ELSE coll[s]]

\* remove(scopeKey, id): no-op when already absent
RemoteRemove(coll, sid) == [coll EXCEPT ![sid] = Absent]

\* acquireLock(scopeKey, id, userId) -> success (conditional write)
AcquireOk(coll, sid, uid) ==
  coll[sid].present /\ (~coll[sid].isLocked \/ coll[sid].lockedBy = uid)

RemoteAcquireLock(coll, sid, uid, t) ==
  IF AcquireOk(coll, sid, uid)
    THEN [coll EXCEPT ![sid].isLocked = TRUE, ![sid].lockedBy = uid, ![sid].lockedAt = t]
    ELSE coll

\* variant of releaseLock that clears only the flag
RemoteReleaseLockFlagOnly(coll, sid) ==
  IF coll[sid].present THEN [coll EXCEPT ![sid].isLocked = FALSE] ELSE coll

\* releaseLock(scopeKey, id)
RemoteReleaseLock(coll, sid) ==
  IF coll[sid].present
    THEN [coll EXCEPT ![sid].isLocked = FALSE, ![sid].lockedBy = NoUser, ![sid].lockedAt = NullTime]
    ELSE coll

Msg(op, sid, v, list) == [op |-> op, sid |-> sid, val |-> v, list |-> list, st |-> "sent"]

\* ------------------------------------------------------------ Sync Adapter
\* unlockShape, synchronous part: clearTimeout of the tracked handle
ClearTracked(tm, ref, ids) == {t \in tm : ~(t.sid \in ids /\ t.h = ref[t.sid] /\ ref[t.sid] # 0)}

ForgetTracked(ref, ids) == [s \in ShapeIds |-> IF s \in ids THEN 0 ELSE ref[s]]

\* unlockShape, remote part: one releaseLock call per id, in order
UnlockMsgs(ids) == [i \in 1..Len(ids) |-> Msg("unlock", ids[i], 0, EmptyColl)]

\* lockShape: the acquireLock call
LockMsg(sid) == Msg("lock", sid, 0, EmptyColl)

\* Shape component: lock held by somebody else and not stale
IsLockStale(sh, t) == sh.isLocked /\ sh.lockedAt # NullTime /\ (t - sh.lockedAt) > LockStaleMs

IsLockedByOther(sh, uid, t) == sh.isLocked /\ sh.lockedBy # uid /\ ~IsLockStale(sh, t)

\* the per-shape state of section 4.2 as one client observes it
ObservedState(sh, uid, t) ==
  IF ~sh.isLocked THEN "Unlocked"
  ELSE IF sh.lockedBy = uid THEN "LockedByMe"
  ELSE IF IsLockStale(sh, t) THEN "LockedByOtherStale"
  ELSE "LockedByOtherFresh"

CanAct(c) == mounted[c] /\ hasInitializedRef[c] /\ ops < limit

\* ----------------------------------------------------------- History Engine
\* variant of the updater that never drops the oldest entry
PushHistoryUncapped(prev, idx, st) ==
  Append(SubSeq(prev, 1, Min(idx + 1, Len(prev))), st)

\* variant of the updater that stores the new state over the entry at the
\* cursor instead of appending a copy
PushHistoryOverwrite(prev, idx, st) ==
  IF idx + 1 \in 1..Len(prev) THEN [prev EXCEPT ![idx + 1] = st] ELSE Append(prev, st)

\* variant of the updater that keeps the redo entries
PushHistoryNoTruncate(prev, idx, st) ==
  LET newHistory == Append(prev, st)
  IN IF Len(newHistory) > MAX_HISTORY THEN Tail(newHistory) ELSE newHistory

\* pushState's setHistory updater: prev is the committed stack, idx the
\* cursor captured by the calling closure
PushHistory(prev, idx, st) ==
  LET newHistory == Append(SubSeq(prev, 1, Min(idx + 1, Len(prev))), st)
  IN IF Len(newHistory) > MAX_HISTORY THEN Tail(newHistory) ELSE newHistory

\* k calls of one pushState closure (same captured cursor and snapshot)
RECURSIVE PushTimes(_, _, _, _)
PushTimes(prev, idx, st, k) ==
  IF k = 0 THEN prev ELSE PushTimes(PushHistory(prev, idx, st), idx, st, k - 1)

\* variant of pushState without the isRestoringRef check
PushStateUnguarded(c, k) ==
  LET nh == PushTimes(history[c], currentIndex[c],
                      HistoryState(shapes[c], selectedIds[c]), k)
  IN /\ history' = [history EXCEPT ![c] = nh]
     /\ currentIndex' = [currentIndex EXCEPT ![c] = Len(nh) - 1]

\* variant of pushState that advances the cursor by one per call instead of
\* placing it on the last entry
PushStateIncrement(c, k) ==
  IF isRestoringRef[c]
    THEN UNCHANGED <<history, currentIndex>>
    ELSE /\ history' = [history EXCEPT ![c] =
                          PushTimes(@, currentIndex[c],
                                    HistoryState(shapes[c], selectedIds[c]), k)]
         /\ currentIndex' = [currentIndex EXCEPT ![c] = Min(@ + k, MAX_HISTORY - 1)]

\* pushState called k >= 1 times from one handler
PushState(c, k) ==
  IF isRestoringRef[c]
    THEN UNCHANGED <<history, currentIndex>>
    ELSE LET nh == PushTimes(history[c], currentIndex[c],
                             HistoryState(shapes[c], selectedIds[c]), k)
         IN /\ history' = [history EXCEPT ![c] = nh]
            /\ currentIndex' = [currentIndex EXCEPT ![c] = Len(nh) - 1]

\* the initialisation effect of useHistory
InitHistory(c) ==
  /\ mounted[c]
  /\ ~hasInitializedRef[c]
  /\ history' = [history EXCEPT ![c] = <<HistoryState(shapes[c], selectedIds[c])>>]
  /\ currentIndex' = [currentIndex EXCEPT ![c] = 0]
  /\ hasInitializedRef' = [hasInitializedRef EXCEPT ![c] = TRUE]
  /\ UNCHANGED <<remote, now, syncVars, selectedIds, lockVars, outbox,
                 isRestoringRef, restoreTimers, ops, failures, usedIds, requested, limit>>

\* --------------------------------------------------- subscription lifecycle
\* initializeCanvas().then(subscribeToCanvas)
Subscribe(c) ==
  /\ sub[c] = "init"
  /\ hasInitializedRef[c]
  /\ sub' = [sub EXCEPT ![c] = "subscribed"]
  /\ UNCHANGED <<remote, now, mounted, shapes, loading, error, selectedIds, lockVars,
                 outbox, histVars, ops, failures, usedIds, requested, limit>>

\* initializeCanvas().catch
SubscribeFail(c) ==
  /\ sub[c] = "init"
  /\ hasInitializedRef[c]
  /\ failures < MaxFailures
  /\ failures' = failures + 1
  /\ sub' = [sub EXCEPT ![c] = "failed"]
  /\ error' = [error EXCEPT ![c] = TRUE]
  /\ loading' = [loading EXCEPT ![c] = FALSE]
  /\ UNCHANGED <<remote, now, mounted, shapes, selectedIds, lockVars, outbox,
                 histVars, ops, usedIds, requested, limit>>

\* variant of the subscription callback that also records the delivered list
\* in the history (change detection)
DeliverRecords(c) ==
  /\ sub[c] = "subscribed"
  /\ hasInitializedRef[c]
  /\ shapes[c] # remote \/ loading[c]
  /\ shapes' = [shapes EXCEPT ![c] = remote]
  /\ loading' = [loading EXCEPT ![c] = FALSE]
  /\ history' = [history EXCEPT ![c] =
                   PushHistory(@, currentIndex[c], HistoryState(remote, selectedIds[c]))]
  /\ currentIndex' = [currentIndex EXCEPT ![c] = Min(@ + 1, MAX_HISTORY - 1)]
  /\ UNCHANGED <<remote, now, sub, mounted, error, selectedIds, lockVars, outbox,
                 isRestoringRef, hasInitializedRef, restoreTimers, ops, failures,
                 usedIds, requested, limit>>

\* variant of the subscription callback that keeps the local list
DeliverKeepsList(c) ==
  /\ sub[c] = "subscribed"
  /\ hasInitializedRef[c]
  /\ shapes[c] # remote \/ loading[c]
  /\ loading' = [loading EXCEPT ![c] = FALSE]
  /\ UNCHANGED <<remote, now, sub, mounted, shapes, error, selectedIds, lockVars, outbox,
                 histVars, ops, failures, usedIds, requested, limit>>

\* the subscription callback: the whole collection replaces the local list
Deliver(c) ==
  /\ sub[c] = "subscribed"
  /\ hasInitializedRef[c]
  /\ shapes[c] # remote \/ loading[c]
  /\ shapes' = [shapes EXCEPT ![c] = remote]
  /\ loading' = [loading EXCEPT ![c] = FALSE]
  /\ UNCHANGED <<remote, now, sub, mounted, error, selectedIds, lockVars, outbox,
                 histVars, ops, failures, usedIds, requested, limit>>

\* effect cleanup on unmount
Unmount(c) ==
  /\ CanAct(c)
  /\ ops' = ops + 1
  /\ mounted' = [mounted EXCEPT ![c] = FALSE]
  /\ sub' = [sub EXCEPT ![c] = IF @ = "subscribed" THEN "unsubscribed" ELSE @]
  /\ timers' = [timers EXCEPT ![c] = ClearTracked(@, lockTimeoutsRef[c], ShapeIds)]
  /\ lockTimeoutsRef' = [lockTimeoutsRef EXCEPT ![c] = ForgetTracked(@, ShapeIds)]
  /\ UNCHANGED <<remote, now, shapes, loading, error, selectedIds, nextHandle,
                 lockResolved, lockView, outbox, histVars, failures, usedIds, requested, limit>>

\* ------------------------------------------------------- remote processing
\* variant of the store in which deleting an id that is not in the collection
\* is rejected, so that deleteShape's catch block sets the error state
RemoteApplyStrictRemove(c, i) ==
  /\ i \in 1..Len(outbox[c])
  /\ outbox[c][i].st = "sent"
  /\ outbox[c][i].op = "remove"
  /\ remote' = RemoteRemove(remote, outbox[c][i].sid)
  /\ outbox' = [outbox EXCEPT ![c] = RemoveAt(@, i)]
  /\ error' = [error EXCEPT ![c] = @ \/ ~remote[outbox[c][i].sid].present]
  /\ UNCHANGED <<now, sub, mounted, shapes, loading, selectedIds, lockVars, histVars,
                 ops, failures, usedIds, requested, limit>>

\* the Shape Store applies one in-flight call of client c (any order)
RemoteApply(c, i) ==
  /\ i \in 1..Len(outbox[c])
  /\ outbox[c][i].st = "sent"
  /\ LET m == outbox[c][i]
     IN CASE m.op = "create" ->
               /\ remote' = RemoteCreate(remote, m.sid, m.list[m.sid])
               /\ outbox' = [outbox EXCEPT ![c] = RemoveAt(@, i)]
          [] m.op = "update" ->
               /\ remote' = RemoteUpdate(remote, m.sid, m.val)
               /\ outbox' = [outbox EXCEPT ![c] = RemoveAt(@, i)]
          [] m.op = "updateShapes" ->
               /\ remote' = RemoteUpdateShapes(remote, m.list)
               /\ outbox' = [outbox EXCEPT ![c] = RemoveAt(@, i)]
          [] m.op = "remove" ->
               /\ remote' = RemoteRemove(remote, m.sid)
               /\ outbox' = [outbox EXCEPT ![c] = RemoveAt(@, i)]
          [] m.op = "unlock" ->
               /\ remote' = RemoteReleaseLock(remote, m.sid)
               /\ outbox' = [outbox EXCEPT ![c] = RemoveAt(@, i)]
          [] m.op = "lock" ->
               /\ remote' = RemoteAcquireLock(remote, m.sid, Uid(c), now)
               /\ outbox' = [outbox EXCEPT ![c][i].st = "acked",
                                           ![c][i].val = IF AcquireOk(remote, m.sid, Uid(c)) THEN 1 ELSE 0]
  /\ UNCHANGED <<now, syncVars, selectedIds, lockVars, histVars, ops, failures, usedIds, requested, limit>>

\* a remote call of client c is rejected (network / permission): the catch
\* blocks of addShape, updateShape and deleteShape set the error state
RemoteReject(c, i) ==
  /\ i \in 1..Len(outbox[c])
  /\ outbox[c][i].st = "sent"
  /\ failures < MaxFailures
  /\ failures' = failures + 1
  /\ LET m == outbox[c][i]
     IN /\ outbox' = [outbox EXCEPT ![c] = IF m.op = "lock"
                                             THEN [@ EXCEPT ![i].st = "nacked"]
                                             ELSE RemoveAt(@, i)]
        /\ error' = [error EXCEPT ![c] = @ \/ m.op \in {"create", "update", "updateShapes", "remove"}]
  /\ UNCHANGED <<remote, now, sub, mounted, shapes, loading, selectedIds, lockVars,
                 histVars, ops, usedIds, requested, limit>>

\* lockShape after its await: arm the safety timer and resolve true, or
\* resolve false from the catch block
LockResolve(c, i) ==
  /\ i \in 1..Len(outbox[c])
  /\ outbox[c][i].op = "lock"
  /\ outbox[c][i].st \in {"acked", "nacked"}
  /\ LET m == outbox[c][i]
     IN IF m.st = "acked"
          THEN /\ timers' = [timers EXCEPT ![c] =
                               @ \cup {[h |-> nextHandle[c], sid |-> m.sid, due |-> now + SafetyUnlockMs]}]
               /\ lockTimeoutsRef' = [lockTimeoutsRef EXCEPT ![c][m.sid] = nextHandle[c]]
               /\ nextHandle' = [nextHandle EXCEPT ![c] = @ + 1]
               /\ lockResolved' = [lockResolved EXCEPT ![c][m.sid] = "true"]
          ELSE /\ lockResolved' = [lockResolved EXCEPT ![c][m.sid] = "false"]
               /\ UNCHANGED <<timers, lockTimeoutsRef, nextHandle>>
  /\ outbox' = [outbox EXCEPT ![c] = RemoveAt(@, i)]
  /\ UNCHANGED lockView
  /\ UNCHANGED <<remote, now, syncVars, selectedIds, histVars, ops, failures, usedIds, requested, limit>>

\* variant of the safety timer callback that issues no unlock
SafetyTimeoutSilent(c, sid) ==
  \E t \in timers[c] :
    /\ t.sid = sid
    /\ t.due <= now
    /\ timers' = [timers EXCEPT ![c] = ClearTracked(@, lockTimeoutsRef[c], {sid}) \ {t}]
    /\ lockTimeoutsRef' = [lockTimeoutsRef EXCEPT ![c] = ForgetTracked(@, {sid})]
    /\ UNCHANGED <<remote, now, syncVars, selectedIds, nextHandle, lockResolved, outbox,
                   lockView, histVars, ops, failures, usedIds, requested, limit>>

\* the 5 s safety timer fires: unlockShape(shapeId), then forget the handle
SafetyTimeout(c, sid) ==
  \E t \in timers[c] :
    /\ t.sid = sid
    /\ t.due <= now
    /\ Len(outbox[c]) < MaxOutbox
    /\ timers' = [timers EXCEPT ![c] = ClearTracked(@, lockTimeoutsRef[c], {sid}) \ {t}]
    /\ lockTimeoutsRef' = [lockTimeoutsRef EXCEPT ![c] = ForgetTracked(@, {sid})]
    /\ outbox' = [outbox EXCEPT ![c] = @ \o UnlockMsgs(<<sid>>)]
    /\ UNCHANGED <<remote, now, syncVars, selectedIds, nextHandle, lockResolved,
                   lockView, histVars, ops, failures, usedIds, requested, limit>>

\* time passes; due timers fire before the clock moves on
Tick ==
  /\ now + TickMs <= MaxNow
  /\ \E s \in ShapeIds : remote[s].isLocked
  /\ \A c \in Clients : restoreTimers[c] = 0 /\ \A t \in timers[c] : t.due > now
  /\ now' = now + TickMs
  /\ UNCHANGED <<remote, syncVars, selectedIds, lockVars, outbox, histVars, ops,
                 failures, usedIds, requested, limit>>

\* --------------------------------------------------- Selection controller
\* common tail of selectShape / clearSelection: unlockShapeSync for every id
\* of unl, then lockShapeSync for every id of lck, then setSelectedIds
SelectionEffect(c, unl, lck, newSel) ==
  /\ Len(outbox[c]) + Len(unl) + Len(lck) <= MaxOutbox
  /\ timers' = [timers EXCEPT ![c] = ClearTracked(@, lockTimeoutsRef[c], SeqToSet(unl))]
  /\ lockTimeoutsRef' = [lockTimeoutsRef EXCEPT ![c] = ForgetTracked(@, SeqToSet(unl))]
  /\ outbox' = [outbox EXCEPT ![c] =
                  @ \o UnlockMsgs(unl) \o [i \in 1..Len(lck) |-> LockMsg(lck[i])]]
  /\ lockResolved' = [lockResolved EXCEPT ![c] =
                        [s \in ShapeIds |-> IF s \in SeqToSet(lck) THEN "pending"
                                            ELSE IF s \in SeqToSet(unl) THEN "none"
                                            ELSE @[s]]]
  /\ lockView' = [lockView EXCEPT ![c] =
                    [s \in ShapeIds |-> IF s \in SeqToSet(lck)
                                          THEN ObservedState(shapes[c][s], Uid(c), now)
                                        ELSE IF s \in SeqToSet(unl) THEN "none"
                                        ELSE @[s]]]
  /\ selectedIds' = [selectedIds EXCEPT ![c] = newSel]
  /\ ops' = ops + 1
  /\ UNCHANGED <<remote, now, syncVars, nextHandle, histVars, failures, usedIds, requested, limit>>

\* variant of selectShape whose plain click leaves the previous selection locked
selectShapeKeepsLocks(c, id, addToSelection) ==
  LET sel == selectedIds[c]
  IN IF id = NoId
       THEN SelectionEffect(c, sel, <<>>, <<>>)
       ELSE IF addToSelection
         THEN IF Includes(sel, id)
                THEN SelectionEffect(c, <<id>>, <<>>, Without(sel, id))
                ELSE SelectionEffect(c, <<>>, <<id>>, Append(sel, id))
         ELSE SelectionEffect(c, <<>>, <<id>>, <<id>>)

\* variant of selectShape whose modifier click on a selected shape releases
\* the whole selection
selectShapeToggleClears(c, id, addToSelection) ==
  LET sel == selectedIds[c]
  IN IF id = NoId
       THEN SelectionEffect(c, sel, <<>>, <<>>)
       ELSE IF addToSelection
         THEN IF Includes(sel, id)
                THEN SelectionEffect(c, sel, <<>>, <<>>)
                ELSE SelectionEffect(c, <<>>, <<id>>, Append(sel, id))
         ELSE SelectionEffect(c, Without(sel, id), <<id>>, <<id>>)

selectShape(c, id, addToSelection) ==
  LET sel == selectedIds[c]
  IN IF id = NoId
       THEN SelectionEffect(c, sel, <<>>, <<>>)
       ELSE IF addToSelection
         THEN IF Includes(sel, id)
                THEN SelectionEffect(c, <<id>>, <<>>, Without(sel, id))
                ELSE SelectionEffect(c, <<>>, <<id>>, Append(sel, id))
         ELSE SelectionEffect(c, Without(sel, id), <<id>>, <<id>>)

\* Shape.handlePointerUp -> onSelect: only an unselected shape that is not
\* locked by another user (fresh) can be clicked
ShapeClick(c, id, addToSelection) ==
  /\ CanAct(c)
  /\ shapes[c][id].present
  /\ ~Includes(selectedIds[c], id)
  /\ ~IsLockedByOther(shapes[c][id], Uid(c), now)
  /\ selectShape(c, id, addToSelection)

\* selectShape(id, true) called through the context by a consumer that passes
\* the modifier: no check of the shape's lock or of the current selection
ToggleSelect(c, id) ==
  /\ CanAct(c)
  /\ shapes[c][id].present
  /\ selectShape(c, id, TRUE)

\* Canvas.handleStageMouseUp / Cmd+A: selectShape(id) without a lock check
BoxSelect(c, id) ==
  /\ CanAct(c)
  /\ shapes[c][id].present
  /\ selectShape(c, id, FALSE)

\* Canvas.handleStageClick: selectShape(null)
StageClick(c) ==
  /\ CanAct(c)
  /\ selectedIds[c] # <<>>
  /\ selectShape(c, NoId, FALSE)

\* ------------------------------------------------ mutations (with history)
\* variant of the mutation tail that also applies the first call to the local
\* list (optimistic update)
MutationEffectOptimistic(c, ms, newSel) ==
  /\ Len(outbox[c]) + Len(ms) <= MaxOutbox
  /\ outbox' = [outbox EXCEPT ![c] = @ \o ms]
  /\ selectedIds' = [selectedIds EXCEPT ![c] = newSel]
  /\ PushState(c, Len(ms))
  /\ ops' = ops + 1
  /\ shapes' = [shapes EXCEPT ![c] =
                  LET m == ms[1]
                  IN CASE m.op = "create" -> RemoteCreate(@, m.sid, m.list[m.sid])
                       [] m.op = "update" -> RemoteUpdate(@, m.sid, m.val)
                       [] m.op = "remove" -> RemoteRemove(@, m.sid)
                       [] OTHER -> @]
  /\ UNCHANGED <<remote, now, sub, mounted, loading, error, lockVars, isRestoringRef,
                 hasInitializedRef, restoreTimers, failures>>

\* common tail of addShape / updateShape / deleteShape: the remote calls ms,
\* the new selection, and one saveToHistory() -> pushState() per call
MutationEffect(c, ms, newSel) ==
  /\ Len(outbox[c]) + Len(ms) <= MaxOutbox
  /\ outbox' = [outbox EXCEPT ![c] = @ \o ms]
  /\ selectedIds' = [selectedIds EXCEPT ![c] = newSel]
  /\ PushState(c, Len(ms))
  /\ ops' = ops + 1
  /\ UNCHANGED <<remote, now, syncVars, lockVars, isRestoringRef, hasInitializedRef,
                 restoreTimers, failures>>

\* generateId: the next k unused ids
FreshIds(k) ==
  LET unused == SelectSeq(IdOrder, LAMBDA s : s \notin usedIds)
  IN IF k <= Len(unused) THEN SubSeq(unused, 1, k) ELSE <<>>

CreateMsg(id, shape) == Msg("create", id, 0, [EmptyColl EXCEPT ![id] = shape])

\* addShape, called once per created shape by the toolbar (one id) or by
\* executeShapeCommands (several ids from one handler)
AddShape(c, ids, type, ov) ==
  /\ CanAct(c)
  /\ Len(ids) \in 1..MaxBatch
  /\ ids = FreshIds(Len(ids))
  /\ usedIds' = usedIds \cup SeqToSet(ids)
  /\ requested' = [s \in ShapeIds |-> IF s \in SeqToSet(ids)
                                        THEN [type |-> type, fill |-> ov]
                                        ELSE requested[s]]
  /\ UNCHANGED limit
  /\ MutationEffect(c, [i \in 1..Len(ids) |-> CreateMsg(ids[i], BuildShape(type, ov))],
                    selectedIds[c])

\* Canvas.handleKeyDown, arrow keys: updateShape(selectedId, ...) unchecked
ArrowKeyMove(c, id, v) ==
  /\ CanAct(c)
  /\ Includes(selectedIds[c], id)
  /\ shapes[c][id].present
  /\ v # shapes[c][id].x
  /\ UNCHANGED <<usedIds, requested, limit>>
  /\ MutationEffect(c, <<Msg("update", id, v, EmptyColl)>>, selectedIds[c])

\* Shape.handleDragEnd -> onChange -> updateShape; draggable: !isLockedByOther
DragEnd(c, id, v) ==
  /\ CanAct(c)
  /\ shapes[c][id].present
  /\ ~IsLockedByOther(shapes[c][id], Uid(c), now)
  /\ v # shapes[c][id].x
  /\ UNCHANGED <<usedIds, requested, limit>>
  /\ MutationEffect(c, <<Msg("update", id, v, EmptyColl)>>, selectedIds[c])

\* Canvas.handleKeyDown, Delete/Backspace: blocked when locked by another user
DeleteKey(c, id) ==
  /\ CanAct(c)
  /\ Includes(selectedIds[c], id)
  /\ ~(shapes[c][id].present /\ shapes[c][id].isLocked /\ shapes[c][id].lockedBy # Uid(c))
  /\ UNCHANGED <<usedIds, requested, limit>>
  /\ MutationEffect(c, <<Msg("remove", id, 0, EmptyColl)>>, Without(selectedIds[c], id))

\* ------------------------------------------------------------- undo / redo
\* variant of the restore step that hands the entry under the old cursor to
\* the callback
RestoreStaleEntry(c, newIndex) ==
  LET state == history[c][currentIndex[c] + 1]
  IN /\ Len(outbox[c]) < MaxOutbox
     /\ isRestoringRef' = [isRestoringRef EXCEPT ![c] = TRUE]
     /\ currentIndex' = [currentIndex EXCEPT ![c] = newIndex]
     /\ outbox' = [outbox EXCEPT ![c] = Append(@, Msg("updateShapes", NoId, 0, state.shapes))]
     /\ selectedIds' = [selectedIds EXCEPT ![c] = state.selectedIds]
     /\ restoreTimers' = [restoreTimers EXCEPT ![c] = @ + 1]
     /\ ops' = ops + 1
     /\ UNCHANGED <<remote, now, syncVars, lockVars, history, hasInitializedRef,
                    failures, usedIds, requested, limit>>

\* onRestore: updateShapesSync(restoredShapes); setSelectedIds(restoredSelectedIds)
Restore(c, newIndex) ==
  LET state == history[c][newIndex + 1]
  IN /\ Len(outbox[c]) < MaxOutbox
     /\ isRestoringRef' = [isRestoringRef EXCEPT ![c] = TRUE]
     /\ currentIndex' = [currentIndex EXCEPT ![c] = newIndex]
     /\ outbox' = [outbox EXCEPT ![c] = Append(@, Msg("updateShapes", NoId, 0, state.shapes))]
     /\ selectedIds' = [selectedIds EXCEPT ![c] = state.selectedIds]
     /\ restoreTimers' = [restoreTimers EXCEPT ![c] = @ + 1]
     /\ ops' = ops + 1
     /\ UNCHANGED <<remote, now, syncVars, lockVars, history, hasInitializedRef,
                    failures, usedIds, requested, limit>>

\* variant of undo whose target index is clamped to the first entry instead
\* of being guarded
UndoClamped(c) ==
  /\ CanAct(c)
  /\ Len(history[c]) > 0
  /\ Restore(c, IF currentIndex[c] > 0 THEN currentIndex[c] - 1 ELSE 0)

\* undo(): nothing happens (only logging) unless the cursor is above the
\* first entry
Undo(c) ==
  /\ CanAct(c)
  /\ IF currentIndex[c] > 0 /\ Len(history[c]) > 0
       THEN Restore(c, currentIndex[c] - 1)
       ELSE UNCHANGED vars

\* redo(): nothing happens unless the cursor is below the last entry
Redo(c) ==
  /\ CanAct(c)
  /\ IF currentIndex[c] < Len(history[c]) - 1 /\ Len(history[c]) > 0
       THEN Restore(c, currentIndex[c] + 1)
       ELSE UNCHANGED vars

\* the flags the hook returns for the undo / redo buttons
canUndo(c) ==
  /\ currentIndex[c] > 0 /\ Len(history[c]) > 0
  /\ currentIndex[c] - 1 < Len(history[c])

canRedo(c) ==
  /\ currentIndex[c] < Len(history[c]) - 1 /\ Len(history[c]) > 0
  /\ currentIndex[c] + 1 >= 0

\* variant of the single-canvas restore callback that also writes the
\* restored shapes to the store
CanvasRestoreWritesShapes(c, newIndex) ==
  LET state == history[c][newIndex + 1]
  IN /\ Len(outbox[c]) < MaxOutbox
     /\ isRestoringRef' = [isRestoringRef EXCEPT ![c] = TRUE]
     /\ currentIndex' = [currentIndex EXCEPT ![c] = newIndex]
     /\ outbox' = [outbox EXCEPT ![c] = Append(@, Msg("updateShapes", NoId, 0, state.shapes))]
     /\ selectedIds' = [selectedIds EXCEPT ![c] =
                          IF state.selectedIds # <<>> THEN <<Head(state.selectedIds)>> ELSE <<>>]
     /\ restoreTimers' = [restoreTimers EXCEPT ![c] = @ + 1]
     /\ ops' = ops + 1
     /\ UNCHANGED <<remote, now, syncVars, lockVars, history, hasInitializedRef,
                    failures, usedIds, requested, limit>>

\* undo / redo under CanvasProvider (single-canvas context). The hook is
\* given selectedIds[0] || null as the selection, and the restore callback
\* ignores the restored shapes:
\* setSelectedIds(restoredSelectedId ? [restoredSelectedId] : [])
CanvasRestore(c, newIndex) ==
  LET state == history[c][newIndex + 1]
  IN /\ isRestoringRef' = [isRestoringRef EXCEPT ![c] = TRUE]
     /\ currentIndex' = [currentIndex EXCEPT ![c] = newIndex]
     /\ selectedIds' = [selectedIds EXCEPT ![c] =
                          IF state.selectedIds # <<>> THEN <<Head(state.selectedIds)>> ELSE <<>>]
     /\ restoreTimers' = [restoreTimers EXCEPT ![c] = @ + 1]
     /\ ops' = ops + 1
     /\ UNCHANGED <<remote, now, syncVars, lockVars, outbox, history, hasInitializedRef,
                    failures, usedIds, requested, limit>>

CanvasUndo(c) ==
  /\ CanAct(c)
  /\ IF currentIndex[c] > 0 /\ Len(history[c]) > 0
       THEN CanvasRestore(c, currentIndex[c] - 1)
       ELSE UNCHANGED vars

CanvasRedo(c) ==
  /\ CanAct(c)
  /\ IF currentIndex[c] < Len(history[c]) - 1 /\ Len(history[c]) > 0
       THEN CanvasRestore(c, currentIndex[c] + 1)
       ELSE UNCHANGED vars

\* setTimeout(() => { isRestoringRef.current = false }, 100)
RestoreTimeout(c) ==
  /\ restoreTimers[c] > 0
  /\ restoreTimers' = [restoreTimers EXCEPT ![c] = @ - 1]
  /\ isRestoringRef' = [isRestoringRef EXCEPT ![c] = FALSE]
  /\ UNCHANGED <<remote, now, syncVars, selectedIds, lockVars, outbox, history,
                 currentIndex, hasInitializedRef, ops, failures, usedIds, requested, limit>>

\* -------------------------------------------------------- initial states
HeldColl(uid, t) ==
  [InitialColl EXCEPT !["s1"].isLocked = TRUE, !["s1"].lockedBy = uid, !["s1"].lockedAt = t]

FirstEntry == HistoryState(EmptyColl, <<>>)

MovedColl == [InitialColl EXCEPT !["s1"].x = 1]

LongHistory ==
  [i \in 1..MAX_HISTORY |-> IF i = 1 THEN FirstEntry ELSE HistoryState(InitialColl, <<>>)]

\* both providers just constructed, the canvas holds the initial collection
FreshStart ==
  [remote |-> InitialColl,
   now |-> StartNow,
   sub |-> [c \in Clients |-> "init"],
   mounted |-> [c \in Clients |-> TRUE],
   shapes |-> [c \in Clients |-> EmptyColl],
   loading |-> [c \in Clients |-> TRUE],
   selectedIds |-> [c \in Clients |-> <<>>],
   lockTimeoutsRef |-> [c \in Clients |-> [s \in ShapeIds |-> 0]],
   timers |-> [c \in Clients |-> {}],
   nextHandle |-> [c \in Clients |-> 1],
   lockResolved |-> [c \in Clients |-> [s \in ShapeIds |-> "none"]],
   lockView |-> [c \in Clients |-> [s \in ShapeIds |-> "none"]],
   history |-> [c \in Clients |-> <<>>],
   currentIndex |-> [c \in Clients |-> -1],
   hasInitializedRef |-> [c \in Clients |-> FALSE],
   limit |-> MaxOps]

\* client B has left the canvas, client A attaches
SoloStart ==
  [FreshStart EXCEPT !.sub["B"] = "unsubscribed", !.mounted["B"] = FALSE,
                     !.shapes["B"] = InitialColl, !.loading["B"] = FALSE,
                     !.history["B"] = <<FirstEntry>>, !.currentIndex["B"] = 0,
                     !.hasInitializedRef["B"] = TRUE, !.limit = MaxSoloOps]

\* both clients attached and up to date
DuoStart ==
  [FreshStart EXCEPT !.sub = [c \in Clients |-> "subscribed"],
                     !.shapes = [c \in Clients |-> InitialColl],
                     !.loading = [c \in Clients |-> FALSE],
                     !.history = [c \in Clients |-> <<FirstEntry>>],
                     !.currentIndex = [c \in Clients |-> 0],
                     !.hasInitializedRef = [c \in Clients |-> TRUE],
                     !.limit = MaxOps]

\* client A has selected s1 and holds its lock, B has seen the lock
HeldStart ==
  [DuoStart EXCEPT !.remote = HeldColl(Uid("A"), StartNow),
                   !.shapes = [c \in Clients |-> HeldColl(Uid("A"), StartNow)],
                   !.selectedIds["A"] = <<"s1">>,
                   !.lockTimeoutsRef["A"]["s1"] = 1,
                   !.timers["A"] = {[h |-> 1, sid |-> "s1", due |-> StartNow + SafetyUnlockMs]},
                   !.nextHandle["A"] = 2,
                   !.lockResolved["A"]["s1"] = "true",
                   !.lockView["A"]["s1"] = "Unlocked"]

\* client A alone, s1 and s2 selected one after the other and both locked
PairColl ==
  [s \in ShapeIds |->
     IF s \in {"s1", "s2"}
       THEN [NewShape(0) EXCEPT !.isLocked = TRUE, !.lockedBy = Uid("A"), !.lockedAt = StartNow]
       ELSE Absent]

PairStart ==
  [DuoStart EXCEPT !.sub["B"] = "unsubscribed", !.mounted["B"] = FALSE,
                   !.remote = PairColl,
                   !.shapes = [c \in Clients |-> IF c = "A" THEN PairColl ELSE InitialColl],
                   !.selectedIds["A"] = <<"s1", "s2">>,
                   !.lockTimeoutsRef["A"] = [s \in ShapeIds |-> IF s = "s1" THEN 1
                                                               ELSE IF s = "s2" THEN 2 ELSE 0],
                   !.timers["A"] = {[h |-> 1, sid |-> "s1", due |-> StartNow + SafetyUnlockMs],
                                    [h |-> 2, sid |-> "s2", due |-> StartNow + SafetyUnlockMs]},
                   !.nextHandle["A"] = 3,
                   !.lockResolved["A"] = [s \in ShapeIds |-> IF s \in {"s1", "s2"} THEN "true" ELSE "none"],
                   !.lockView["A"] = [s \in ShapeIds |-> IF s \in {"s1", "s2"} THEN "Unlocked" ELSE "none"],
                   !.limit = MaxPairOps]

\* client A has selected and dragged s1 and its lock has been released by the
\* safety timer; client B has then deleted s1, and the snapshot without s1
\* has not reached A yet
GoneStart ==
  [DuoStart EXCEPT !.remote = EmptyColl,
                   !.shapes = [c \in Clients |-> IF c = "A" THEN MovedColl ELSE EmptyColl],
                   !.selectedIds["A"] = <<"s1">>,
                   !.nextHandle["A"] = 2,
                   !.lockResolved["A"]["s1"] = "true",
                   !.lockView["A"]["s1"] = "Unlocked",
                   !.history = [c \in Clients |->
                                  IF c = "A"
                                    THEN <<FirstEntry, HistoryState(InitialColl, <<"s1">>),
                                           HistoryState(MovedColl, <<"s1">>)>>
                                    ELSE <<FirstEntry, HistoryState(MovedColl, <<"s1">>)>>],
                   !.currentIndex = [c \in Clients |-> IF c = "A" THEN 2 ELSE 1],
                   !.limit = MaxGoneOps]

\* a user whose client is gone holds a lock on s1 that has become stale;
\* clients A and B are attached and both see it
StaleDuoStart ==
  [DuoStart EXCEPT !.remote = HeldColl(GoneUser, StartNow),
                   !.shapes = [c \in Clients |-> HeldColl(GoneUser, StartNow)],
                   !.now = StartNow + LockStaleMs + TickMs,
                   !.limit = MaxOps]

\* client A left while holding the lock on s1, which has become stale
StaleStart ==
  [DuoStart EXCEPT !.remote = HeldColl(Uid("A"), StartNow),
                   !.shapes = [c \in Clients |-> HeldColl(Uid("A"), StartNow)],
                   !.now = StartNow + LockStaleMs + TickMs,
                   !.sub["A"] = "unsubscribed", !.mounted["A"] = FALSE,
                   !.selectedIds["A"] = <<"s1">>,
                   !.nextHandle["A"] = 2,
                   !.lockResolved["A"]["s1"] = "true",
                   !.lockView["A"]["s1"] = "Unlocked"]

\* client A alone, its history full: MAX_HISTORY - 1 drags
\* of s1 were recorded before the echo of the first one was delivered
LongStart ==
  [DuoStart EXCEPT !.sub["B"] = "unsubscribed", !.mounted["B"] = FALSE,
                   !.remote = MovedColl,
                   !.shapes = [c \in Clients |-> IF c = "A" THEN MovedColl ELSE InitialColl],
                   !.history["A"] = LongHistory,
                   !.currentIndex["A"] = MAX_HISTORY - 1,
                   !.limit = MaxCapOps]

\* client A has dragged s1 twice and undone once, then selected s1 and holds
\* its lock; client B attaches
LiveStart ==
  [HeldStart EXCEPT !.sub["B"] = "init",
                    !.shapes["B"] = EmptyColl,
                    !.loading["B"] = TRUE,
                    !.history = [c \in Clients |->
                                   IF c = "A"
                                     THEN <<FirstEntry, HistoryState(InitialColl, <<>>),
                                            HistoryState(MovedColl, <<>>)>>
                                     ELSE <<>>],
                    !.currentIndex = [c \in Clients |-> IF c = "A" THEN 1 ELSE -1],
                    !.hasInitializedRef["B"] = FALSE,
                    !.limit = MaxLiveOps]

Scenarios ==
  {SoloStart, DuoStart, HeldStart, StaleStart, LongStart, PairStart, GoneStart, StaleDuoStart}

InitOf(scs) ==
  \E sc \in scs :
    /\ remote = sc.remote
    /\ now = sc.now
    /\ sub = sc.sub
    /\ mounted = sc.mounted
    /\ shapes = sc.shapes
    /\ loading = sc.loading
    /\ error = [c \in Clients |-> FALSE]
    /\ selectedIds = sc.selectedIds
    /\ lockTimeoutsRef = sc.lockTimeoutsRef
    /\ timers = sc.timers
    /\ nextHandle = sc.nextHandle
    /\ outbox = [c \in Clients |-> <<>>]
    /\ lockResolved = sc.lockResolved
    /\ lockView = sc.lockView
    /\ history = sc.history
    /\ currentIndex = sc.currentIndex
    /\ isRestoringRef = [c \in Clients |-> FALSE]
    /\ hasInitializedRef = sc.hasInitializedRef
    /\ restoreTimers = [c \in Clients |-> 0]
    /\ ops = 0
    /\ limit = sc.limit
    /\ failures = 0
    /\ usedIds = InitialIds \cup {s \in ShapeIds : sc.remote[s].present}
    /\ requested = [s \in ShapeIds |-> NoRequest]

\* ------------------------------------------------------------ specification
Init == InitOf(Scenarios)

Next ==
  \/ \E c \in Clients : InitHistory(c)
  \/ \E c \in Clients : Subscribe(c)
  \/ \E c \in Clients : SubscribeFail(c)
  \/ \E c \in Clients : Deliver(c)
  \/ \E c \in Clients : Unmount(c)
  \/ \E c \in Clients : \E i \in 1..MaxOutbox : RemoteApply(c, i)
  \/ \E c \in Clients : \E i \in 1..MaxOutbox : RemoteReject(c, i)
  \/ \E c \in Clients : \E i \in 1..MaxOutbox : LockResolve(c, i)
  \/ \E c \in Clients : \E id \in ShapeIds : SafetyTimeout(c, id)
  \/ Tick
  \/ \E c \in Clients : \E id \in ShapeIds : \E a \in BOOLEAN : ShapeClick(c, id, a)
  \/ \E c \in Clients : \E id \in ShapeIds : BoxSelect(c, id)
  \/ \E c \in Clients : \E id \in ShapeIds : ToggleSelect(c, id)
  \/ \E c \in Clients : StageClick(c)
  \/ \E c \in Clients : \E ids \in IdLists : \E call \in AddCalls :
       AddShape(c, ids, call[1], call[2])
  \/ \E c \in Clients : \E id \in ShapeIds : \E v \in XVals : ArrowKeyMove(c, id, v)
  \/ \E c \in Clients : \E id \in ShapeIds : \E v \in XVals : DragEnd(c, id, v)
  \/ \E c \in Clients : \E id \in ShapeIds : DeleteKey(c, id)
  \/ \E c \in Clients : Undo(c)
  \/ \E c \in Clients : Redo(c)
  \/ \E c \in Clients : RestoreTimeout(c)

Spec == Init /\ [][Next]_vars

\* the store applies every call, promise continuations and timers run, and
\* the subscription keeps delivering
Fairness ==
  /\ \A c \in Clients : WF_vars(Deliver(c))
  /\ \A c \in Clients : WF_vars(\E i \in 1..MaxOutbox : RemoteApply(c, i))
  /\ \A c \in Clients : WF_vars(\E i \in 1..MaxOutbox : LockResolve(c, i))
  /\ \A c \in Clients : WF_vars(\E id \in ShapeIds : SafetyTimeout(c, id))
  /\ \A c \in Clients : WF_vars(RestoreTimeout(c))
  /\ WF_vars(Tick)

InitLive == InitOf({LiveStart})

SpecLive == InitLive /\ [][Next]_vars /\ Fairness

\* a single client attaching to the canvas
InitSolo == InitOf({SoloStart})

SpecSolo == InitSolo /\ [][Next]_vars

\* a single client working under CanvasProvider: the same adapter, selection
\* and history hook, with the provider's own restore callback
InitCanvas == InitOf({SoloStart})

NextCanvas ==
  \/ \E c \in Clients : InitHistory(c)
  \/ \E c \in Clients : Subscribe(c)
  \/ \E c \in Clients : Deliver(c)
  \/ \E c \in Clients : \E i \in 1..MaxOutbox : RemoteApply(c, i)
  \/ \E c \in Clients : \E i \in 1..MaxOutbox : LockResolve(c, i)
  \/ \E c \in Clients : \E id \in ShapeIds : \E a \in BOOLEAN : ShapeClick(c, id, a)
  \/ \E c \in Clients : StageClick(c)
  \/ \E c \in Clients : \E ids \in IdLists : \E call \in AddCalls :
       AddShape(c, ids, call[1], call[2])
  \/ \E c \in Clients : \E id \in ShapeIds : \E v \in XVals : DragEnd(c, id, v)
  \/ \E c \in Clients : \E id \in ShapeIds : DeleteKey(c, id)
  \/ \E c \in Clients : CanvasUndo(c)
  \/ \E c \in Clients : CanvasRedo(c)
  \/ \E c \in Clients : RestoreTimeout(c)

SpecCanvas == InitCanvas /\ [][NextCanvas]_vars

\* ------------------------------------------------------------------ claims
\* C1 — lock mutual exclusion: when two clients call lockShape on the same
\* shape while each of them observes it Unlocked, the call resolves true for at
\* most one of them (never do both hold a granted lock with its safety timer
\* pending).
C1_AtMostOneLockWinner ==
  \A s \in ShapeIds :
    ~(\A c \in Clients : /\ lockView[c][s] = "Unlocked"
                         /\ lockResolved[c][s] = "true"
                         /\ lockTimeoutsRef[c][s] # 0)

\* C2 — contention scenario: after two clients selected the same Unlocked shape
\* and both lock calls have resolved, exactly one selection contains the shape;
\* a client whose lock attempt resolved false never has the shape selected.
C2_ExactlyOneSelection ==
  \A s \in ShapeIds :
    /\ (\A c \in Clients : /\ lockView[c][s] = "Unlocked"
                           /\ lockResolved[c][s] \in {"true", "false"})
         => Cardinality({c \in Clients : Includes(selectedIds[c], s)}) = 1
    /\ \A c \in Clients : lockResolved[c][s] = "false" => ~Includes(selectedIds[c], s)

\* C3 — staleness recovery: when a client's lockShape on a shape it observed
\* locked by another user for more than 10 s has resolved true (and it has not
\* released the lock since), the shared shape carries lockedBy = that client.
C3_StaleLockTakenOver ==
  \A c \in Clients : \A s \in ShapeIds :
    (/\ lockView[c][s] = "LockedByOtherStale"
     /\ lockResolved[c][s] = "true"
     /\ lockTimeoutsRef[c][s] # 0
     /\ remote[s].present)
      => remote[s].isLocked /\ remote[s].lockedBy = Uid(c)

\* C4 — a shape that a client observes LockedByOther and fresh is never the
\* target of an update or remove call issued by that client: no step appends
\* such a remote call to the client's calls in flight.
C4_LockedByOtherNotMutated ==
  [][\A c \in Clients : \A id \in ShapeIds :
       IsLockedByOther(shapes[c][id], Uid(c), now) =>
         \A i \in 1..Len(outbox'[c]) :
           i > Len(outbox[c]) =>
             ~(outbox'[c][i].op \in {"update", "remove"} /\ outbox'[c][i].sid = id)]_vars

\* C5 — undo/redo inverse law, for one recorded mutation (s1 moved from x = 0
\* to x = 1 by the only client, no remote failure, every call applied): after
\* the mutation and one undo the shared collection is the pre-mutation one
\* (x = 0), and after mutation, undo and redo it is the post-mutation one
\* (x = 1).
C5_UndoRedoInverse ==
  (/\ usedIds = InitialIds
   /\ failures = 0
   /\ Len(history["A"]) = 2
   /\ outbox["A"] = <<>>
   /\ remote["s1"].present)
    => /\ (ops = 2 /\ currentIndex["A"] = 0) => remote["s1"].x = 0
       /\ (ops = 3 /\ currentIndex["A"] = 1) => remote["s1"].x = 1

\* C6 — history re-entrancy: a step taken while the restoration guard is set
\* (or the undo/redo step that sets it) never changes the history stack, and
\* moves the cursor only as an undo/redo does, by exactly one; so the restore
\* an undo triggers, and a pushState arriving while the guard is active, add
\* no entry.
C6_RestoreAddsNoEntry ==
  [][\A c \in Clients :
       (isRestoringRef[c] \/ isRestoringRef'[c]) =>
         /\ history'[c] = history[c]
         /\ currentIndex'[c] # currentIndex[c] =>
              /\ restoreTimers'[c] = restoreTimers[c] + 1
              /\ currentIndex'[c] - currentIndex[c] \in {-1, 1}]_vars

\* C6 witness: after an undo, a drag issued while the guard is still set has
\* gone out (its remote call follows the restore call) and the stack still
\* has the undone entry above the cursor
C6_Witness ==
  \E c \in Clients :
    /\ isRestoringRef[c]
    /\ currentIndex[c] = Len(history[c]) - 2
    /\ Len(outbox[c]) = 2
    /\ outbox[c][1].op = "updateShapes"
    /\ outbox[c][2].op = "update"

\* C7 — restoration guard: while the timer of any restoration is still
\* pending (in particular that of the most recent one) the guard is set, so a
\* pushState issued inside any restoration's window is ignored.
C7_GuardCoversEveryWindow ==
  \A c \in Clients : restoreTimers[c] > 0 => isRestoringRef[c]

\* C8 — cursor invariant: once the history is initialised, the stack is not
\* empty and 0 <= currentIndex <= Len(history) - 1, also after several
\* pushState calls of one handler.
C8_CursorInRange ==
  \A c \in Clients :
    hasInitializedRef[c] =>
      /\ Len(history[c]) >= 1
      /\ 0 <= currentIndex[c]
      /\ currentIndex[c] <= Len(history[c]) - 1

\* C8 witness: two addShape calls of one handler have pushed twice, the
\* cursor is on the last entry
C8_Witness ==
  \E c \in Clients :
    /\ Len(outbox[c]) = 2
    /\ outbox[c][1].op = "create"
    /\ outbox[c][2].op = "create"
    /\ Len(history[c]) >= 2
    /\ currentIndex[c] = Len(history[c]) - 1

\* C9 (as stated) — history cap: the stack never holds more than MAX_HISTORY
\* entries, and every pushState on a full stack (a mutation handler that issued
\* k remote calls while the guard was clear pushed k snapshots) drops the
\* oldest entry per snapshot, appends the snapshot and leaves the cursor on the
\* last entry.
C9_PushOnFullStackEvicts ==
  /\ [](\A c \in Clients : Len(history[c]) <= MAX_HISTORY)
  /\ [][\A c \in Clients : \A k \in 1..MaxBatch :
          LET st == HistoryState(shapes[c], selectedIds[c])
              ext == history[c] \o [i \in 1..k |-> st]
              pushed == /\ ~isRestoringRef[c]
                        /\ Len(outbox'[c]) = Len(outbox[c]) + k
                        /\ \A i \in (Len(outbox[c]) + 1)..Len(outbox'[c]) :
                             outbox'[c][i].op \in {"create", "update", "remove"}
          IN (pushed /\ Len(history[c]) = MAX_HISTORY) =>
               /\ history'[c] = SubSeq(ext, Len(ext) - MAX_HISTORY + 1, Len(ext))
               /\ currentIndex'[c] = MAX_HISTORY - 1]_vars

\* C9 (amended) — history cap: the stack never holds more than MAX_HISTORY
\* entries, and a pushState on a full stack whose cursor is on the last entry
\* drops the oldest entry, appends the new snapshot and leaves the cursor on
\* the last entry.
C9_PushAtEndOfFullStackEvicts ==
  /\ [](\A c \in Clients : Len(history[c]) <= MAX_HISTORY)
  /\ [][\A c \in Clients : \A k \in 1..MaxBatch :
          LET st == HistoryState(shapes[c], selectedIds[c])
              ext == history[c] \o [i \in 1..k |-> st]
              pushed == /\ ~isRestoringRef[c]
                        /\ Len(outbox'[c]) = Len(outbox[c]) + k
                        /\ \A i \in (Len(outbox[c]) + 1)..Len(outbox'[c]) :
                             outbox'[c][i].op \in {"create", "update", "remove"}
          IN (pushed /\ Len(history[c]) = MAX_HISTORY /\ currentIndex[c] = MAX_HISTORY - 1) =>
               /\ history'[c] = SubSeq(ext, Len(ext) - MAX_HISTORY + 1, Len(ext))
               /\ currentIndex'[c] = MAX_HISTORY - 1]_vars

\* C9 witness: a push on the full stack has dropped the first entry
C9_Witness ==
  \E c \in Clients :
    /\ Len(history[c]) = MAX_HISTORY
    /\ currentIndex[c] = MAX_HISTORY - 1
    /\ history[c][1] # FirstEntry
    /\ history[c][MAX_HISTORY].shapes = MovedColl

\* C10 — history initialisation: once the first remote state has been
\* delivered to an attached client, the first entry of its stack holds the
\* collection of the canvas it attached to (every shape that was there), so
\* that undoing the first edit restores the pre-edit collection.
C10_FirstEntryIsAttachedCollection ==
  \A c \in Clients :
    (mounted[c] /\ sub[c] = "subscribed" /\ ~loading[c]) =>
      /\ Len(history[c]) >= 1
      /\ \A s \in InitialIds : history[c][1].shapes[s].present

\* C11 — round-trip convergence: a shape created by addShape(type, overrides)
\* that a client's local list holds after a snapshot has the requested type
\* and, for every field supplied in overrides (here the fill), the supplied
\* value, whatever the shape type.
C11_CreatedShapeKeepsOverrides ==
  \A c \in Clients : \A s \in ShapeIds :
    (requested[s] # NoRequest /\ shapes[c][s].present) =>
      /\ shapes[c][s].type = requested[s].type
      /\ requested[s].fill # NoOverride => shapes[c][s].fill = requested[s].fill

\* C12 — eventual convergence: once the clients have stopped issuing writes
\* and the store keeps delivering, every subscribed client's local list
\* eventually equals the remote collection and stays equal.
C12_EventuallyConverged ==
  \A c \in Clients : <>[](sub[c] = "subscribed" => shapes[c] = remote)

\* C12 witness: a client that attached while another one was writing has
\* received the written collection
C12_Witness ==
  /\ sub["B"] = "subscribed"
  /\ ~loading["B"]
  /\ ops = MaxLiveOps
  /\ remote # HeldColl(Uid("A"), StartNow)
  /\ shapes["B"] = remote

\* C13 (as stated) — safety auto-unlock: every lockShape that resolves true
\* arms a timer due 5 s later, and a lock a client holds with such a timer
\* pending (due within the modelled time) is eventually released even if no
\* deselect happens, provided no remote call fails.
C13_LockReleasedByTimer ==
  /\ [][\A c \in Clients : \A s \in ShapeIds :
          (lockResolved[c][s] = "pending" /\ lockResolved'[c][s] = "true") =>
            \E t \in timers'[c] \ timers[c] : t.sid = s /\ t.due = now + SafetyUnlockMs]_vars
  /\ \A c \in Clients : \A s \in ShapeIds :
       [](( /\ remote[s].isLocked /\ remote[s].lockedBy = Uid(c)
            /\ \E t \in timers[c] : t.sid = s /\ t.due <= MaxNow)
          => <>(~(remote[s].isLocked /\ remote[s].lockedBy = Uid(c)) \/ failures > 0))

\* C13 (amended) — safety auto-unlock: every lockShape that resolves true arms
\* a timer due 5 s later, and a lock a client holds with such a timer pending
\* is eventually released even if no deselect happens, provided the client
\* stays mounted and no remote call fails.
C13_LockReleasedByTimerWhileMounted ==
  /\ [][\A c \in Clients : \A s \in ShapeIds :
          (lockResolved[c][s] = "pending" /\ lockResolved'[c][s] = "true") =>
            \E t \in timers'[c] \ timers[c] : t.sid = s /\ t.due = now + SafetyUnlockMs]_vars
  /\ \A c \in Clients : \A s \in ShapeIds :
       [](( /\ remote[s].isLocked /\ remote[s].lockedBy = Uid(c)
            /\ \E t \in timers[c] : t.sid = s /\ t.due <= MaxNow)
          => <>(\/ ~(remote[s].isLocked /\ remote[s].lockedBy = Uid(c))
                \/ ~mounted[c]
                \/ failures > 0))

\* C13 witness: no handler ran, the timer of the selected shape has fired after
\* 5 s and the lock is released while the shape is still selected
C13_Witness ==
  /\ ops = 0
  /\ failures = 0
  /\ now = StartNow + TickMs
  /\ mounted["A"]
  /\ Includes(selectedIds["A"], "s1")
  /\ timers["A"] = {}
  /\ ~remote["s1"].isLocked

\* C14 — teardown: once a client has unmounted, its subscription is not
\* active and none of its lock-safety timers is pending, so neither the
\* snapshot callback nor a timer callback can run for it; this also covers an
\* unmount while initializeCanvas() or a lockShape call is in flight.
C14_TeardownIsFinal ==
  \A c \in Clients :
    ~mounted[c] => (sub[c] # "subscribed" /\ timers[c] = {})

\* C15 — stale-selection reference: when a snapshot replaces a client's local
\* list, every id left in that client's selection is a shape of the snapshot
\* (an id another client deleted has been dropped from the selection).
C15_SnapshotDropsDanglingSelection ==
  [][\A c \in Clients :
       shapes'[c] # shapes[c] =>
         \A i \in 1..Len(selectedIds'[c]) : shapes'[c][selectedIds'[c][i]].present]_vars

\* C16 — selection replacement: a selectShape(id) without the modifier issues
\* one unlock call for every previously selected id other than id, all of them
\* before its single lock call for id, and leaves the selection equal to <<id>>;
\* selectShape(null) issues one unlock call for every selected id, no lock
\* call, and leaves the selection empty.
C16_ReplaceUnlocksThenLocks ==
  [][\A c \in Clients :
       LET old == selectedIds[c]
           n == Len(outbox[c])
           issued == SubSeq(outbox'[c], n + 1, Len(outbox'[c]))
           UnlockAt(i, sid) == issued[i].op = "unlock" /\ issued[i].sid = sid
       IN /\ \A id \in ShapeIds :
               (BoxSelect(c, id) \/ ShapeClick(c, id, FALSE)) =>
                 /\ selectedIds'[c] = <<id>>
                 /\ Len(issued) = Len(Without(old, id)) + 1
                 /\ issued[Len(issued)] = LockMsg(id)
                 /\ \A k \in 1..Len(old) :
                      old[k] # id => \E i \in 1..(Len(issued) - 1) : UnlockAt(i, old[k])
                 /\ \A i \in 1..(Len(issued) - 1) :
                      issued[i].op = "unlock" /\ issued[i].sid # id
          /\ StageClick(c) =>
               /\ selectedIds'[c] = <<>>
               /\ Len(issued) = Len(old)
               /\ \A k \in 1..Len(old) : UnlockAt(k, old[k])]_vars

\* C16 witness: a client that had s1 selected has replaced its selection by
\* s2; the unlock of s1 and the lock of s2 are in flight, in that order
C16_Witness ==
  /\ selectedIds["A"] = <<"s2">>
  /\ Len(outbox["A"]) = 2
  /\ outbox["A"][1] = Msg("unlock", "s1", 0, EmptyColl)
  /\ outbox["A"][2] = LockMsg("s2")

\* C17 — add-to-selection toggle: selectShape(id, true) appends id to the
\* selection and issues one lock call for id when id was absent, removes id
\* and issues one unlock call for id when it was present; it issues no call
\* for any other id and the other selected ids keep their membership and order.
C17_ToggleLeavesOthersAlone ==
  [][\A c \in Clients : \A id \in ShapeIds :
       (ToggleSelect(c, id) \/ ShapeClick(c, id, TRUE)) =>
         LET old == selectedIds[c]
             issued == SubSeq(outbox'[c], Len(outbox[c]) + 1, Len(outbox'[c]))
             Others(q) == SelectSeq(q, LAMBDA s : s # id)
         IN /\ IF Includes(old, id)
                 THEN /\ ~Includes(selectedIds'[c], id)
                      /\ issued = UnlockMsgs(<<id>>)
                 ELSE /\ selectedIds'[c] = Append(old, id)
                      /\ issued = <<LockMsg(id)>>
            /\ Others(selectedIds'[c]) = Others(old)
            /\ timers'[c] \ timers[c] = {}
            /\ \A t \in timers[c] \ timers'[c] : t.sid = id]_vars

\* C17 witness: with s1 and s2 selected, s1 was toggled off: s2 is still
\* selected and still has its safety timer, and only the unlock of s1 was issued
C17_Witness ==
  /\ selectedIds["A"] = <<"s2">>
  /\ outbox["A"] = UnlockMsgs(<<"s1">>)
  /\ \E t \in timers["A"] : t.sid = "s2"
  /\ ~(\E t \in timers["A"] : t.sid = "s1")
  /\ lockResolved["A"]["s2"] = "true"

\* C18 — lock contention is a normal outcome: a lockShape call made while the
\* caller's local list showed the shape locked by another client, with a lock
\* not older than 10 s, issues no remote lock call, arms no timer and does not
\* resolve true.
C18_ContendedLockIsDenied ==
  \A c \in Clients : \A s \in ShapeIds :
    lockView[c][s] = "LockedByOtherFresh" =>
      /\ lockResolved[c][s] # "true"
      /\ ~(\E i \in 1..Len(outbox[c]) : outbox[c][i].op = "lock" /\ outbox[c][i].sid = s)
      /\ ~(\E t \in timers[c] : t.sid = s)

\* C19 — write failures become a readable error state: whenever one of a
\* client's remote create, update, delete, lock or unlock calls fails, that
\* client's error state is set and its local shape list is left as it was.
C19_FailedCallSetsError ==
  [][\A c \in Clients :
       (failures' = failures + 1 /\ outbox'[c] # outbox[c]) =>
         (error'[c] /\ shapes'[c] = shapes[c])]_vars

\* C20 — while a client has no working subscription (initialisation pending,
\* subscribed but no snapshot delivered yet, or initialisation failed) its
\* local shape list is empty and its loading flag is true.
C20_NoSubscriptionMeansLoading ==
  \A c \in Clients :
    (sub[c] \in {"init", "failed"} \/ (sub[c] = "subscribed" /\ loading[c])) =>
      (shapes[c] = EmptyColl /\ loading[c])

C22_RestoreOfDeletedIsNotLost ==
  [][\A c \in Clients : \A i \in 1..MaxOutbox :
       (/\ i <= Len(outbox[c])
        /\ outbox[c][i].op = "updateShapes"
        /\ RemoteApply(c, i)) =>
         \A s \in ShapeIds :
           (outbox[c][i].list[s].present /\ ~remote[s].present) =>
             (remote'[s].present \/ error'[c])]_vars

\* C23 — per-shape write ordering: the store never applies an updateShape call
\* of a client while an earlier-issued updateShape call of the same client on
\* the same shape, carrying a different value, is still in flight (otherwise
\* the earlier value would be the one that the store ends up holding).
C23_UpdatesAppliedInIssueOrder ==
  [][\A c \in Clients : \A i \in 1..MaxOutbox :
       (/\ i <= Len(outbox[c])
        /\ outbox[c][i].op = "update"
        /\ RemoteApply(c, i)) =>
         ~(\E j \in 1..(i - 1) :
             /\ outbox[c][j].op = "update"
             /\ outbox[c][j].sid = outbox[c][i].sid
             /\ outbox[c][j].val # outbox[c][i].val)]_vars

\* C24 — snapshot immutability: every step leaves each client's stack as it
\* was, or keeps a run of consecutive old entries unchanged, in their order,
\* followed by newly appended entries; old entries disappear only from the
\* redo end (truncation) or, when the stack is full, from the front (eviction).
C24_EntriesNeverChange ==
  [][\A c \in Clients :
       LET old == history[c]
           new == history'[c]
       IN \/ new = old
          \/ \E d \in 0..MaxBatch : \E m \in d..Len(old) :
               /\ m - d < Len(new)
               /\ SubSeq(new, 1, m - d) = SubSeq(old, d + 1, m)
               /\ \A i \in (m - d + 1)..Len(new) :
                    new[i] = HistoryState(shapes[c], selectedIds[c])
               /\ d > 0 => Len(new) = MAX_HISTORY]_vars

\* C24 witness: the entry recorded at a drag still holds the pre-drag list
\* after the drag's echo has replaced the live list
C24_Witness ==
  /\ Len(history["A"]) = 2
  /\ currentIndex["A"] = 1
  /\ history["A"][1] = FirstEntry
  /\ history["A"][2] = HistoryState(InitialColl, <<>>)
  /\ shapes["A"] = MovedColl
  /\ remote = MovedColl

\* C25 — local list equals the last delivered snapshot: a client's local list
\* changes only in a delivery of the subscription, which replaces it by the
\* whole pushed collection; no local addShape, updateShape, deleteShape,
\* lockShape or unlockShape, and no success or failure of their remote calls,
\* changes it.
C25_ListChangesOnlyByDelivery ==
  [][\A c \in Clients :
       shapes'[c] # shapes[c] =>
         /\ Deliver(c)
         /\ shapes'[c] = remote
         /\ outbox' = outbox
         /\ failures' = failures]_vars

\* C25 witness: a client's addShape has been applied by the store; until the
\* snapshot is delivered the created shape is not in that client's list
C25_Witness ==
  /\ requested["s2"] # NoRequest
  /\ remote["s2"].present
  /\ outbox["A"] = <<>>
  /\ sub["A"] = "subscribed"
  /\ ~loading["A"]
  /\ ~shapes["A"]["s2"].present
  /\ Len(history["A"]) >= 2

\* C26 — history is captured only for local mutations: a client's stack and
\* cursor change only in the initialisation of its history or in a step of
\* one of the client-side handlers; a delivery of a snapshot and the store's
\* processing of a call change neither.
C26_HistoryChangesOnlyLocally ==
  [][\A c \in Clients :
       (history'[c] # history[c] \/ currentIndex'[c] # currentIndex[c]) =>
         /\ shapes' = shapes
         /\ remote' = remote
         /\ InitHistory(c) \/ ops' = ops + 1]_vars

\* C26 witness: client B's drag has been delivered to client A, whose stack
\* still holds only its first entry
C26_Witness ==
  /\ sub["A"] = "subscribed"
  /\ shapes["A"] = MovedColl
  /\ history["A"] = <<FirstEntry>>
  /\ currentIndex["A"] = 0
  /\ Len(history["B"]) = 2
  /\ outbox["A"] = <<>>

C28_PushTruncatesAppendsAndMovesCursor ==
  [][\A c \in Clients : \A k \in 1..MaxBatch :
       LET st == HistoryState(shapes[c], selectedIds[c])
           old == history[c]
           new == history'[c]
           idx == currentIndex[c]
           pushed == /\ ~isRestoringRef[c]
                     /\ Len(outbox'[c]) = Len(outbox[c]) + k
                     /\ \A i \in (Len(outbox[c]) + 1)..Len(outbox'[c]) :
                          outbox'[c][i].op \in {"create", "update", "remove"}
       IN pushed =>
            /\ \E a \in 1..k : \E d \in 0..k :
                 /\ new = SubSeq(old, d + 1, idx + 1) \o [i \in 1..a |-> st]
                 /\ d > 0 => Len(new) = MAX_HISTORY
                 /\ k = 1 => (a = 1 /\ (d = 1 <=> idx + 1 = MAX_HISTORY))
            /\ currentIndex'[c] = Len(new) - 1
            /\ ~(currentIndex'[c] < Len(new) - 1)]_vars

\* C28 witness: a drag, an undo and, after the guard was cleared, a second
\* drag: the undone entry is gone, the stack ends with the new entry and the
\* cursor is on it
C28_Witness ==
  /\ ops = 3
  /\ ~isRestoringRef["A"]
  /\ Len(outbox["A"]) = 2
  /\ outbox["A"][1].op = "updateShapes"
  /\ outbox["A"][2].op = "update"
  /\ Len(history["A"]) = 2
  /\ currentIndex["A"] = 1

\* C29 — a selected shape is locked by its selector: for a mounted client,
\* every selected id whose lock call has resolved and whose shape is in the
\* shared collection is locked there by that client.
C29_SelectedMeansLockedByMe ==
  \A c \in Clients : \A s \in ShapeIds :
    (/\ mounted[c]
     /\ Includes(selectedIds[c], s)
     /\ lockResolved[c][s] \in {"true", "false"}
     /\ remote[s].present) =>
      (remote[s].isLocked /\ remote[s].lockedBy = Uid(c))

\* C30 — lockShape reports what the store answered: when the acquire-lock
\* call of a lockShape invocation came back as not acquired, the invocation
\* resolves false and arms no safety timer (so it resolves true only for an
\* acquired lock).
C30_RefusedLockResolvesFalse ==
  [][\A c \in Clients : \A i \in 1..MaxOutbox :
       (/\ i <= Len(outbox[c])
        /\ outbox[c][i].op = "lock"
        /\ outbox[c][i].st = "acked"
        /\ outbox[c][i].val = 0
        /\ LockResolve(c, i)) =>
         /\ lockResolved'[c][outbox[c][i].sid] = "false"
         /\ timers'[c] = timers[c]]_vars

\* C31 — an unlock never releases somebody else's lock: when the store
\* processes an unlock call of a client while the shape is locked by another
\* client, the shape's lock is left as it is.
C31_UnlockSparesOthersLock ==
  [][\A c \in Clients : \A i \in 1..MaxOutbox :
       (/\ i <= Len(outbox[c])
        /\ outbox[c][i].op = "unlock"
        /\ remote[outbox[c][i].sid].present
        /\ remote[outbox[c][i].sid].isLocked
        /\ remote[outbox[c][i].sid].lockedBy # Uid(c)
        /\ RemoteApply(c, i)) =>
         remote'[outbox[c][i].sid] = remote[outbox[c][i].sid]]_vars

\* C32 — concurrent stale-lock override: when two clients call lockShape on a
\* shape that both observe as locked by a third user with a stale lock, at
\* most one of the two calls resolves true, and once both have resolved the
\* shape is locked by the client whose call resolved true.
C32_OneStaleOverrideWins ==
  \A s \in ShapeIds :
    (\A c \in Clients : /\ lockView[c][s] = "LockedByOtherStale"
                        /\ lockResolved[c][s] \in {"true", "false"}) =>
      /\ ~(\A c \in Clients : lockResolved[c][s] = "true")
      /\ \A c \in Clients :
           lockResolved[c][s] = "true" =>
             (remote[s].isLocked /\ remote[s].lockedBy = Uid(c))

\* C33 — temporal coupling of mutation and capture: the snapshot that
\* pushState appends right after a local addShape / updateShape / deleteShape
\* contains the effect of that mutation, so the entry at the cursor shows the
\* created shape, the new value, or the absence of the deleted shape.
C33_SnapshotHoldsTheMutation ==
  [][\A c \in Clients : ~isRestoringRef[c] =>
       LET entry == history'[c][currentIndex'[c] + 1].shapes
       IN /\ \A id \in ShapeIds : \A v \in XVals :
               (DragEnd(c, id, v) \/ ArrowKeyMove(c, id, v)) =>
                 (entry[id].present /\ entry[id].x = v)
          /\ \A id \in ShapeIds : DeleteKey(c, id) => ~entry[id].present
          /\ \A id \in ShapeIds : \A call \in AddCalls :
               AddShape(c, <<id>>, call[1], call[2]) => entry[id].present]_vars

\* C34 — undo / redo at the boundaries: with the cursor on the first entry
\* undo() does nothing, and with the cursor on the last entry redo() does
\* nothing: cursor, stack and guard keep their values and the restore
\* callback is not invoked (no call issued, selection kept). canUndo is true
\* exactly when the cursor is above the first entry, canRedo exactly when it
\* is below the last one.
C34_BoundaryUndoRedoAreNoOps ==
  /\ [](\A c \in Clients :
          hasInitializedRef[c] =>
            /\ canUndo(c) <=> currentIndex[c] > 0
            /\ canRedo(c) <=> currentIndex[c] + 1 < Len(history[c]))
  /\ [][\A c \in Clients :
          /\ (Undo(c) /\ currentIndex[c] <= 0) =>
               UNCHANGED <<currentIndex, history, isRestoringRef, restoreTimers,
                           outbox, selectedIds>>
          /\ (Redo(c) /\ currentIndex[c] + 1 >= Len(history[c])) =>
               UNCHANGED <<currentIndex, history, isRestoringRef, restoreTimers,
                           outbox, selectedIds>>]_vars

\* a client that can act has undone back to the first entry of a longer
\* stack: undo is at its boundary (and redo is not), the guard period is over
C34_Witness ==
  \E c \in Clients :
    /\ CanAct(c)
    /\ currentIndex[c] = 0 /\ Len(history[c]) >= 2
    /\ ~isRestoringRef[c]
    /\ ~canUndo(c) /\ canRedo(c)

\* C35 — undo / redo step: undo() with the cursor above the first entry
\* moves the cursor down by exactly one and invokes the restore callback
\* exactly once, with the shapes and the selection stored at the new cursor;
\* redo() with the cursor below the last entry does the same one entry up.
\* Neither changes the entries of the stack.
C35_UndoRedoMoveOneEntry ==
  [][\A c \in Clients :
       LET Restored(newIndex) ==
             LET state == history[c][newIndex + 1]
             IN /\ currentIndex'[c] = newIndex
                /\ outbox'[c] = Append(outbox[c], Msg("updateShapes", NoId, 0, state.shapes))
                /\ selectedIds'[c] = state.selectedIds
                /\ history' = history
       IN /\ (Undo(c) /\ currentIndex[c] > 0) => Restored(currentIndex[c] - 1)
          /\ (Redo(c) /\ currentIndex[c] + 1 < Len(history[c])) => Restored(currentIndex[c] + 1)]_vars

\* an undo has just restored an entry that differs from the one it left, in
\* shapes and in selection: its shapes are in flight to the store and its
\* selection is the local selection
C35_Witness ==
  \E c \in Clients :
    /\ isRestoringRef[c]
    /\ currentIndex[c] + 2 <= Len(history[c])
    /\ history[c][currentIndex[c] + 1].shapes # history[c][currentIndex[c] + 2].shapes
    /\ history[c][currentIndex[c] + 1].selectedIds # history[c][currentIndex[c] + 2].selectedIds
    /\ selectedIds[c] = history[c][currentIndex[c] + 1].selectedIds
    /\ \E i \in 1..Len(outbox[c]) :
         /\ outbox[c][i].op = "updateShapes"
         /\ outbox[c][i].list = history[c][currentIndex[c] + 1].shapes

\* C36 — same-tick pushes: when one handler makes k pushState calls that are
\* not suppressed by the guard before the hook re-renders, each call adds its
\* own entry: the number of undo steps (entries below the cursor) grows by k,
\* up to the cap, and the cursor is on the last entry.
C36_EveryPushAddsAnEntry ==
  [][\A c \in Clients : \A k \in 1..MaxBatch : \A call \in AddCalls :
       (AddShape(c, FreshIds(k), call[1], call[2]) /\ ~isRestoringRef[c]) =>
         /\ currentIndex'[c] = Min(currentIndex[c] + k, MAX_HISTORY - 1)
         /\ currentIndex'[c] = Len(history'[c]) - 1]_vars

\* C37 — every local mutation gets a history entry: the pushState that
\* follows a genuine local mutation is never discarded, also when the
\* mutation is made within the guard period after an undo or redo, so the
\* handler of the mutation leaves the stack with a new last entry under the
\* cursor.
C37_MutationAlwaysRecorded ==
  [][\A c \in Clients :
       (\/ \E id \in ShapeIds : \E v \in XVals : DragEnd(c, id, v) \/ ArrowKeyMove(c, id, v)
        \/ \E id \in ShapeIds : DeleteKey(c, id)
        \/ \E k \in 1..MaxBatch : \E call \in AddCalls :
             AddShape(c, FreshIds(k), call[1], call[2])) =>
         /\ history'[c] # history[c]
         /\ currentIndex'[c] = Len(history'[c]) - 1]_vars

\* C38 — safety timers: for every client and shape id at most one safety
\* timer is pending at any time (locking again replaces the pending timer),
\* and no timer is pending for a shape whose last lock operation by the client
\* was an explicit unlock.
C38_OneSafetyTimerPerShape ==
  \A c \in Clients : \A s \in ShapeIds :
    /\ Cardinality({t \in timers[c] : t.sid = s}) <= 1
    /\ lockResolved[c][s] = "none" => {t \in timers[c] : t.sid = s} = {}

\* C39 — a restore leaves locks alone: when the store applies the shapes of a
\* history snapshot restored by undo() / redo(), the lock state (isLocked,
\* lockedBy, lockedAt) of every shape in the shared collection stays what it
\* was at that time.
C39_RestoreKeepsLockState ==
  [][\A c \in Clients : \A i \in 1..MaxOutbox :
       (/\ i <= Len(outbox[c])
        /\ outbox[c][i].op = "updateShapes"
        /\ RemoteApply(c, i)) =>
         \A s \in ShapeIds :
           (remote[s].present /\ remote'[s].present) =>
             /\ remote'[s].isLocked = remote[s].isLocked
             /\ remote'[s].lockedBy = remote[s].lockedBy
             /\ remote'[s].lockedAt = remote[s].lockedAt]_vars

====
